---- MODULE Spec2Model ----
(***************************************************************************)
(* State-machine model of src/src/LatentRolloutVisualizer.jsx: the React   *)
(* component that owns a latent vector and an LSTM recurrent state, decodes*)
(* the latent to a frame through an ONNX decoder session and advances it   *)
(* through an ONNX dynamics session.                                       *)
(*                                                                         *)
(* Execution model.  JavaScript runs every handler to completion, and the  *)
(* state setters a handler calls are committed together in one render pass *)
(* (React batches them); the effect whose dependencies changed runs right  *)
(* after that render.  One action below is therefore one whole handler:    *)
(* its setState calls, the render, and the effect the render triggers.     *)
(* The two awaits (decoderSession.run, lstmSession.run) and the model load *)
(* split their functions into an issuing handler and a continuation.       *)
(*                                                                         *)
(* Numbers.  A latent component is a JS double.  The sliders produce       *)
(* multiples of 0.05, so a number is written [n, f32]: n counts units of   *)
(* 0.05 and f32 says whether the value is the float32 nearest to n*0.05    *)
(* (TRUE) or the double n*0.05 itself (FALSE).  n*0.05 is a float32 exactly*)
(* when 5 divides n; those values are always written with f32 = TRUE.      *)
(* A hidden-state array is a Float32Array whose entries are all equal (the  *)
(* zero fill of a cold start, and what the dynamics stand-in returns); it  *)
(* is written [len, fill].  Decoder intensities are written in thousandths.*)
(***************************************************************************)
EXTENDS Integers, Sequences, FiniteSets, TLC

\* ---------------------------------------------------------------- constants
LATENT_DIM == 16
NUM_LAYERS == 2
HIDDEN_DIM == 128
SCALE == 4

\* ------------------------------------------------------------------- bounds
\* The decoded image is IMG_H x IMG_W = 96 x 96 in the source; the model keeps
\* the same layout on a small square image.
ImgW == 2
ImgH == ImgW
\* edit / advance / reset requests the operator makes in one run
MaxRequests == 2
\* the operator makes a request only while fewer inference calls than this are
\* in flight (calls the program issues on its own are not held back)
MaxInFlight == 2
\* promises that reject or resolve malformed in one run (the load, a decoder
\* run, a dynamics run)
MaxFailures == 1

\* --------------------------------------------------------------- input sets
\* null for a session or the error string
Null == "null"
\* null / undefined where a Float32Array or a tensor is expected (hData, cData,
\* a missing output): written as an array record with len = -1
NoData == [len |-> -1, fill |-> 0]
\* slider moves <<index, value in units of 0.05>>: z[0] = 0.05 and z[15] = 2.5
EditInputs == {<<0, 1>>, <<LATENT_DIM - 1, 50>>}
Actions == {0, 1}
LstmOutcomes == {"ok", "reject", "no_h1", "no_c1"}
\* run() resolves, rejects, or resolves without an x_recon output (line 63 throws)
DecoderOutcomes == {"ok", "reject", "no_x_recon"}

VARIABLES
  decoderSession, lstmSession, loading, error,   \* useState, lines 15-18
  latent, hData, cData,                          \* useState, lines 20-22
  smallCanvas,                                   \* the canvas behind smallCanvasRef
  loadPending,                                   \* loadModels awaiting Promise.all
  decodeInFlight,    \* runDecoder calls awaiting run(), in issue order
  stepInFlight,      \* stepWithAction calls awaiting run(), in issue order
  \* history variables (not program state)
  nRequests,    \* number of edit / advance / reset requests so far
  nFailures,    \* number of promises that failed so far
  everIssued,   \* an inference call has been issued
  undecoded,    \* latents a state change produced and no decode call has carried yet
  lastEvent     \* the handler that ran last, with what it saw and did

engine == <<latent, hData, cData>>
vars == <<decoderSession, lstmSession, loading, error, latent, hData, cData,
          smallCanvas, loadPending, decodeInFlight, stepInFlight,
          nRequests, nFailures, everIssued, undecoded, lastEvent>>

\* ------------------------------------------------------------------ numbers
Double(n) == [n |-> n, f32 |-> (n % 5 = 0)]
\* storing a double into a Float32Array element
ToFloat32(x) == [n |-> x.n, f32 |-> TRUE]
Max(a, b) == IF a > b THEN a ELSE b
Min(a, b) == IF a < b THEN a ELSE b

ZeroLatent == [i \in 1..LATENT_DIM |-> Double(0)]
HiddenLen == NUM_LAYERS * 1 * HIDDEN_DIM
\* new Float32Array(NUM_LAYERS * 1 * HIDDEN_DIM)
ZeroHidden == [len |-> HiddenLen, fill |-> 0]
HiddenDims == <<NUM_LAYERS, 1, HIDDEN_DIM>>

\* new ort.Tensor("float32", data, dims)
Tensor(data, dims) == [data |-> data, dims |-> dims]
\* new Float32Array(LATENT_DIM) filled from latent[i], as a [1, LATENT_DIM] tensor
LatentTensor(lat) ==
  Tensor([i \in 1..LATENT_DIM |-> ToFloat32(lat[i])], <<1, LATENT_DIM>>)

\* ------------------------------------------------ the external ONNX sessions
\* Stand-ins for the two models behind the tensor contract: fixed weights, so
\* each is a function of its input tensors.  The dynamics stand-in moves z[0]
\* by 4.0 (left or right), which leaves the sliders' range [-3, 3], adds h0 to
\* z[1], and advances h and c.
Dir(a) == IF a = 0 THEN -1 ELSE 1

\* lstmSession.run({latent, action, h0, c0}) -> {next_latent, h1, c1}
LstmModel(call) ==
  [next_latent |-> [i \in 1..LATENT_DIM |->
                      ToFloat32([n |-> call.latent.data[i].n
                                        + (IF i = 1 THEN 80 * Dir(call.action.data[1]) ELSE 0)
                                        + (IF i = 2 THEN call.h0.data.fill ELSE 0),
                                 f32 |-> TRUE])],
   h1 |-> [len |-> call.h0.data.len, fill |-> call.h0.data.fill + 1],
   c1 |-> [len |-> call.c0.data.len,
           fill |-> call.c0.data.fill + 1 + call.action.data[1]]]

\* What run() resolves to: the model's outputs, possibly with a tensor missing.
LstmOutputs(call, outcome) ==
  LET o == LstmModel(call) IN
  [next_latent |-> o.next_latent,
   h1 |-> IF outcome = "no_h1" THEN NoData ELSE o.h1,
   c1 |-> IF outcome = "no_c1" THEN NoData ELSE o.c1]

PlaneSize == ImgH * ImgW
\* what the decoder stand-in outputs for the zero latent, repeated over the
\* planes: intensities -0.1, 0.0, 0.5, 1.0, 1.1 and 0.5, in thousandths
DecoderBias == <<-100, 0, 500, 1000, 1100, 500>>
\* decoderSession.run({z}) -> x_recon.data: three planes (R, G, B) of
\* intensities, in thousandths, 0-based index j written j+1.  Every latent
\* component feeds some intensity once 3 * PlaneSize >= LATENT_DIM / 2.
DecoderModel(z) ==
  [j \in 1..(3 * PlaneSize) |->
     DecoderBias[((j - 1) % Len(DecoderBias)) + 1]
       + 10 * (z.data[((j - 1) % LATENT_DIM) + 1].n
               + z.data[LATENT_DIM - ((j - 1) % LATENT_DIM)].n)]

\* ---------------------------------------------------------- frame rendering
\* Math.round(v * 255) for v = t/1000: round half up
RoundTimes255(t) == (2 * t * 255 + 1000) \div 2000
\* mutant: the product is truncated instead of rounded
ToByteFloor(t) == Max(0, Min(255, (t * 255) \div 1000))

\* Math.max(0, Math.min(255, Math.round(v * 255)))
ToByte(t) == Max(0, Min(255, RoundTimes255(t)))

\* planar [3][H][W] floats -> interleaved RGBA bytes (lines 72-86)
RenderRGBA(data) ==
  [b \in 1..(4 * PlaneSize) |->
     LET idxHW == (b - 1) \div 4
         ch == (b - 1) % 4
     IN IF ch = 3 THEN 255 ELSE ToByte(data[ch * PlaneSize + idxHW + 1])]

\* drawImage with imageSmoothingEnabled = false: nearest-neighbour, SCALE x
Upscale(rgba) ==
  [p \in 1..(ImgH * SCALE * ImgW * SCALE) |->
     LET Y == (p - 1) \div (ImgW * SCALE)
         X == (p - 1) % (ImgW * SCALE)
         src == (Y \div SCALE) * ImgW + (X \div SCALE)
     IN <<rgba[4 * src + 1], rgba[4 * src + 2], rgba[4 * src + 3], rgba[4 * src + 4]>>]

\* a canvas before anything is drawn: transparent black
BlankRGBA == [b \in 1..(4 * PlaneSize) |-> 0]

\* ------------------------------------------------------------ code fragments
\* mutant: a reported error disables the action buttons
DisabledAfterError ==
  loading \/ decoderSession = Null \/ lstmSession = Null \/ error # Null

\* mutant: the action buttons are disabled while an inference call is pending
DisabledWhileBusy ==
  \/ loading \/ decoderSession = Null \/ lstmSession = Null
  \/ decodeInFlight # <<>> \/ stepInFlight # <<>>

\* line 181
Disabled == loading \/ decoderSession = Null \/ lstmSession = Null

\* mutant: runDecoder without its guard
RunDecoderGuardAlways(dec) == TRUE

\* line 52: the canvases are mounted before any effect runs, so only the
\* session decides
RunDecoderGuard(dec) == dec # Null

\* line 133
StepGuard(lstm) == lstm # Null

\* mutant: the new array is not copied from prev
SetComponentFresh(prev, idx, value) ==
  [j \in 1..LATENT_DIM |-> IF j = idx + 1 THEN value ELSE Double(0)]

\* lines 116-120
SetComponent(prev, idx, value) == [prev EXCEPT ![idx + 1] = value]

\* mutant: reset forgets setCData(null)
ResetStateKeepsC == <<ZeroLatent, NoData, cData>>

\* lines 127-129: <<latent, hData, cData>> after reset
ResetState == <<ZeroLatent, NoData, NoData>>

\* mutant: the stored arrays are passed on as they are, absent or not
ColdStartUnfilled(h, c) == <<h, c>>

\* mutant: every call starts from a zero-filled recurrent state
ColdStartAlways(h, c) == <<ZeroHidden, ZeroHidden>>

\* lines 148-153
ColdStart(h, c) == IF h = NoData \/ c = NoData
                   THEN <<ZeroHidden, ZeroHidden>>
                   ELSE <<h, c>>

\* mutant: a successful step stores the latent and h but not c
ApplyStepDropsC(lat, h, c, err, outcome, out) ==
  IF outcome = "reject" THEN <<lat, h, c, "StepError">>
  ELSE IF out.h1 = NoData THEN <<out.next_latent, h, c, "StepError">>
  ELSE IF out.c1 = NoData THEN <<out.next_latent, out.h1, c, "StepError">>
  ELSE <<out.next_latent, out.h1, c, err>>

\* mutant: the returned latent is clamped to the sliders' range [-3, 3]
ApplyStepClamped(lat, h, c, err, outcome, out) ==
  LET clamped == [i \in 1..LATENT_DIM |->
                    [n |-> Max(-60, Min(60, out.next_latent[i].n)), f32 |-> TRUE]]
  IN IF outcome = "reject" THEN <<lat, h, c, "StepError">>
     ELSE IF out.h1 = NoData THEN <<clamped, h, c, "StepError">>
     ELSE IF out.c1 = NoData THEN <<clamped, out.h1, c, "StepError">>
     ELSE <<clamped, out.h1, out.c1, err>>

\* lines 164-178: the continuation of stepWithAction after the await.
\* <<latent, hData, cData, error>> once the handler has run.
ApplyStep(lat, h, c, err, outcome, out) ==
  IF outcome = "reject"
    THEN <<lat, h, c, "StepError">>                        \* threw at 157 / 169
  ELSE IF out.h1 = NoData
    THEN <<out.next_latent, h, c, "StepError">>            \* threw at 173
  ELSE IF out.c1 = NoData
    THEN <<out.next_latent, out.h1, c, "StepError">>       \* threw at 174
  ELSE <<out.next_latent, out.h1, out.c1, err>>

\* mutant: a successful decode clears the reported error
ApplyDecodeClearsError(small, err, outcome, data) ==
  IF outcome = "ok"
    THEN <<RenderRGBA(data), Null>>
    ELSE <<small, "DecodeError">>

\* mutant: a failed decode clears the canvas
ApplyDecodeBlanksOnFailure(small, err, outcome, data) ==
  IF outcome = "ok"
    THEN <<RenderRGBA(data), err>>
    ELSE <<BlankRGBA, "DecodeError">>

\* lines 62-88 / 106-109: <<smallCanvas, error>> after the continuation of
\* runDecoder.
ApplyDecode(small, err, outcome, data) ==
  IF outcome = "ok"
    THEN <<RenderRGBA(data), err>>
    ELSE <<small, "DecodeError">>

\* lines 90-105: the visible canvas is redrawn from the small one in the same
\* continuation, so at every moment it is the upscaled small canvas.
bigCanvas == Upscale(smallCanvas)

\* ------------------------------------------------------- history bookkeeping
NoCall == [none |-> TRUE]
Pre == [latent |-> latent, hData |-> hData, cData |-> cData, error |-> error,
        canvas |-> smallCanvas]
\* kind: the handler; arg: its arguments; call: the inference call it issued or
\* whose result it handled; issued: the z tensors of the decode calls its
\* effect issued; pre: the state it started from; prev: the handler before it;
\* lastRequest: the latest operator request (edit / reset / advance) so far
Requests == {"edit", "reset", "advance"}
Event(kind, arg, call, outcome, issued) ==
  [kind |-> kind, arg |-> arg, call |-> call, outcome |-> outcome,
   issued |-> issued, pre |-> Pre, prev |-> lastEvent.kind,
   lastRequest |-> IF kind \in Requests THEN kind ELSE lastEvent.lastRequest]

RemoveAt(seq, k) == [i \in 1..(Len(seq) - 1) |-> IF i < k THEN seq[i] ELSE seq[i + 1]]
\* a dynamics call is stale once a newer request has been made
MarkStale(seq) == [i \in 1..Len(seq) |-> [seq[i] EXCEPT !.stale = TRUE]]
\* a decode call is superseded once a decode call issued after it has drawn
SupersedeBefore(seq, k) ==
  [i \in 1..Len(seq) |-> IF i < k THEN [seq[i] EXCEPT !.superseded = TRUE] ELSE seq[i]]

CanRequest ==
  /\ nRequests < MaxRequests
  /\ Len(decodeInFlight) + Len(stepInFlight) < MaxInFlight

\* ------------------------------------------------------------------ effects
\* mutant: the effect decodes the latent of the first render
RunDecoderInitialLatent(dec, lat) ==
  IF RunDecoderGuard(dec) THEN <<LatentTensor(ZeroLatent)>> ELSE <<>>

\* mutant: the effect issues nothing
RunDecoderNever(dec, lat) == <<>>

\* The effect of lines 50-113, run after a render in which decoderSession or
\* latent changed: issues decoderSession.run on the new latent (lines 52-61).
\* The z tensors of the calls it issues:
RunDecoder(dec, lat) ==
  IF RunDecoderGuard(dec) THEN <<LatentTensor(lat)>> ELSE <<>>

DecodeCalls(zs) == [i \in 1..Len(zs) |-> [z |-> zs[i], superseded |-> FALSE]]
\* `changed`: the handler changed engine state (an edit, a reset, a step result)
Undecoded(zs, lat, changed) ==
  IF zs # <<>> THEN undecoded \ {zs[i] : i \in 1..Len(zs)}
  ELSE IF changed THEN undecoded \cup {LatentTensor(lat)} ELSE undecoded

\* --------------------------------------------------------------------- Init
\* After the first render and its mount effects: loadModels is awaiting
\* Promise.all, runDecoder returned at line 52.
Init ==
  /\ decoderSession = Null /\ lstmSession = Null
  /\ loading = TRUE /\ error = Null
  /\ latent = ZeroLatent /\ hData = NoData /\ cData = NoData
  /\ smallCanvas = BlankRGBA
  /\ loadPending = TRUE
  /\ decodeInFlight = <<>> /\ stepInFlight = <<>>
  /\ nRequests = 0 /\ nFailures = 0 /\ everIssued = FALSE
  /\ undecoded = {}
  /\ lastEvent = [kind |-> "init", arg |-> <<>>, call |-> NoCall, outcome |-> "ok",
                  issued |-> <<>>, prev |-> "init", lastRequest |-> "none",
                  pre |-> [latent |-> ZeroLatent, hData |-> NoData, cData |-> NoData,
                           error |-> Null, canvas |-> BlankRGBA]]

\* ------------------------------------------------------------------ actions
\* lines 32-37, 42: Promise.all resolved; decoderSession changed, so the effect
\* runs
LoadSucceeded ==
  /\ loadPending
  /\ loadPending' = FALSE
  /\ decoderSession' = "decoder" /\ lstmSession' = "lstm"
  /\ loading' = FALSE
  /\ LET zs == RunDecoder(decoderSession', latent)
     IN /\ decodeInFlight' = decodeInFlight \o DecodeCalls(zs)
        /\ everIssued' = (everIssued \/ zs # <<>>)
        /\ undecoded' = Undecoded(zs, latent, FALSE)
        /\ lastEvent' = Event("loadOk", <<>>, NoCall, "ok", zs)
  /\ UNCHANGED <<error, latent, hData, cData, smallCanvas, stepInFlight,
                 nRequests, nFailures>>

\* lines 38-43: Promise.all rejected (either session failed to load)
LoadFailed ==
  /\ loadPending
  /\ nFailures < MaxFailures
  /\ nFailures' = nFailures + 1
  /\ loadPending' = FALSE
  /\ error' = "LoadError"
  /\ loading' = FALSE
  /\ lastEvent' = Event("loadFailed", <<>>, NoCall, "reject", <<>>)
  /\ UNCHANGED <<decoderSession, lstmSession, latent, hData, cData, smallCanvas,
                 decodeInFlight, stepInFlight, nRequests, everIssued, undecoded>>

\* lines 115-124 (a slider moved), then the effect
HandleSliderChange(idx, value) ==
  /\ CanRequest
  /\ nRequests' = nRequests + 1
  /\ latent' = SetComponent(latent, idx, value)
  /\ stepInFlight' = MarkStale(stepInFlight)
  /\ LET zs == RunDecoder(decoderSession, latent')
     IN /\ decodeInFlight' = decodeInFlight \o DecodeCalls(zs)
        /\ everIssued' = (everIssued \/ zs # <<>>)
        /\ undecoded' = Undecoded(zs, latent', TRUE)
        /\ lastEvent' = Event("edit", <<idx, value>>, NoCall, "ok", zs)
  /\ UNCHANGED <<decoderSession, lstmSession, loading, error, hData, cData,
                 smallCanvas, loadPending, nFailures>>

\* lines 126-130 (the reset button), then the effect
ResetLatentAndHidden ==
  /\ CanRequest
  /\ nRequests' = nRequests + 1
  /\ latent' = ResetState[1] /\ hData' = ResetState[2] /\ cData' = ResetState[3]
  /\ stepInFlight' = MarkStale(stepInFlight)
  /\ LET zs == RunDecoder(decoderSession, latent')
     IN /\ decodeInFlight' = decodeInFlight \o DecodeCalls(zs)
        /\ everIssued' = (everIssued \/ zs # <<>>)
        /\ undecoded' = Undecoded(zs, latent', TRUE)
        /\ lastEvent' = Event("reset", <<>>, NoCall, "ok", zs)
  /\ UNCHANGED <<decoderSession, lstmSession, loading, error, smallCanvas,
                 loadPending, nFailures>>

\* lines 136-162: the tensors stepWithAction hands to lstmSession.run
StepCall(lat, a, h, c) ==
  [latent |-> LatentTensor(lat),
   action |-> Tensor(<<a>>, <<1, 1>>),
   h0 |-> Tensor(ColdStart(h, c)[1], HiddenDims),
   c0 |-> Tensor(ColdStart(h, c)[2], HiddenDims),
   stale |-> FALSE]

\* lines 132-162: a click on an action button, up to the await
StepWithAction(a) ==
  /\ ~Disabled                      \* the buttons are disabled (lines 263, 270)
  /\ CanRequest
  /\ nRequests' = nRequests + 1
  /\ IF StepGuard(lstmSession)
       THEN /\ stepInFlight' = Append(MarkStale(stepInFlight),
                                      StepCall(latent, a, hData, cData))
            /\ everIssued' = TRUE
            /\ lastEvent' = Event("advance", <<a>>,
                                  StepCall(latent, a, hData, cData), "ok", <<>>)
       ELSE /\ stepInFlight' = MarkStale(stepInFlight)
            /\ UNCHANGED everIssued
            /\ lastEvent' = Event("advance", <<a>>, NoCall, "ok", <<>>)
  /\ UNCHANGED <<decoderSession, lstmSession, loading, error, latent, hData, cData,
                 smallCanvas, loadPending, decodeInFlight, nFailures, undecoded>>

\* lines 157-178: lstmSession.run settled; then the effect if setLatent ran
StepReturns(k, outcome) ==
  /\ k \in 1..Len(stepInFlight)
  /\ outcome # "ok" => nFailures < MaxFailures
  /\ nFailures' = IF outcome = "ok" THEN nFailures ELSE nFailures + 1
  /\ stepInFlight' = RemoveAt(stepInFlight, k)
  /\ LET call == stepInFlight[k]
         r == ApplyStep(latent, hData, cData, error, outcome,
                        LstmOutputs(call, outcome))
         \* setLatent ran (line 170) unless run() rejected
         zs == IF outcome = "reject" THEN <<>> ELSE RunDecoder(decoderSession, r[1])
     IN /\ latent' = r[1] /\ hData' = r[2] /\ cData' = r[3] /\ error' = r[4]
        /\ decodeInFlight' = decodeInFlight \o DecodeCalls(zs)
        /\ everIssued' = (everIssued \/ zs # <<>>)
        /\ undecoded' = Undecoded(zs, latent', outcome # "reject")
        /\ lastEvent' = Event("stepReturned", <<>>, call, outcome, zs)
  /\ UNCHANGED <<decoderSession, lstmSession, loading, smallCanvas, loadPending,
                 nRequests>>

\* lines 61-109: decoderSession.run settled
DecodeReturns(k, outcome) ==
  /\ k \in 1..Len(decodeInFlight)
  /\ outcome # "ok" => nFailures < MaxFailures
  /\ nFailures' = IF outcome = "ok" THEN nFailures ELSE nFailures + 1
  /\ decodeInFlight' = RemoveAt(IF outcome = "ok"
                                  THEN SupersedeBefore(decodeInFlight, k)
                                  ELSE decodeInFlight, k)
  /\ LET call == decodeInFlight[k]
         r == ApplyDecode(smallCanvas, error, outcome, DecoderModel(call.z))
     IN /\ smallCanvas' = r[1] /\ error' = r[2]
        /\ lastEvent' = Event("decodeReturned", <<>>, call, outcome, <<>>)
  /\ UNCHANGED <<decoderSession, lstmSession, loading, latent, hData, cData,
                 loadPending, stepInFlight, nRequests, everIssued, undecoded>>

Next ==
  \/ LoadSucceeded
  \/ LoadFailed
  \/ \E e \in EditInputs : HandleSliderChange(e[1], Double(e[2]))
  \/ ResetLatentAndHidden
  \/ \E a \in Actions : StepWithAction(a)
  \/ \E k \in 1..Len(stepInFlight), outcome \in LstmOutcomes : StepReturns(k, outcome)
  \/ \E k \in 1..Len(decodeInFlight), outcome \in DecoderOutcomes :
       DecodeReturns(k, outcome)

Spec == Init /\ [][Next]_vars

\* The promises the handlers await settle: the load, every decoderSession.run and
\* every lstmSession.run.  Operator requests carry no fairness.
Settles ==
  \/ LoadSucceeded
  \/ LoadFailed
  \/ \E k \in 1..Len(stepInFlight), outcome \in LstmOutcomes : StepReturns(k, outcome)
  \/ \E k \in 1..Len(decodeInFlight), outcome \in DecoderOutcomes :
       DecodeReturns(k, outcome)
FairSpec == Spec /\ WF_vars(Settles)

\* ===================================================================== claims
\* Each claim is stated on lastEvent: the handler that produced the current
\* state, the state it started from (pre) and what it did.
StepReturnedOk == lastEvent.kind = "stepReturned" /\ lastEvent.outcome = "ok"
StepFailed == lastEvent.kind = "stepReturned" /\ lastEvent.outcome # "ok"
EngineUntouched ==
  /\ latent = lastEvent.pre.latent
  /\ hData = lastEvent.pre.hData
  /\ cData = lastEvent.pre.cData

\* C1 -- Decode ordering: a decode call that a later-issued decode call has
\* already overtaken (the later call's frame is drawn) does not overwrite the
\* canvas when its own result arrives; the newer request's frame stays.
C1_StaleDecodeNeverOverwrites ==
  (/\ lastEvent.kind = "decodeReturned"
   /\ lastEvent.outcome = "ok"
   /\ lastEvent.call.superseded)
  => smallCanvas = lastEvent.pre.canvas

\* C2 -- Stale step results are never applied: when a dynamics call completes
\* successfully after a newer edit / advance / reset request was made, its
\* result is dropped: latent, h and c stay as they were.
C2_StaleStepNeverApplied ==
  (StepReturnedOk /\ lastEvent.call.stale) => EngineUntouched

\* C3 -- Atomic step commit: a successful dynamics step replaces latent, h and
\* c together: the state after it never pairs the returned latent with a
\* recurrent state other than the returned one, nor a returned h or c with a
\* latent other than the returned one, and the decode request it triggers is
\* issued from that state.
C3_AtomicStepCommit ==
  StepReturnedOk =>
    LET out == LstmModel(lastEvent.call)
        newLatent == latent = out.next_latent
        newH == hData = out.h1
        newC == cData = out.c1
    IN /\ newLatent /\ newH /\ newC
       /\ ~(newLatent /\ (hData = lastEvent.pre.hData \/ cData = lastEvent.pre.cData)
             /\ ~(newH /\ newC))
       /\ ~((newH \/ newC) /\ latent = lastEvent.pre.latent /\ ~newLatent)
       /\ lastEvent.issued = <<LatentTensor(out.next_latent)>>
C3_Witness ==
  /\ StepReturnedOk
  /\ latent # lastEvent.pre.latent
  /\ hData # lastEvent.pre.hData
  /\ cData # lastEvent.pre.cData

\* C4 -- Failure leaves state untouched: when an advance ends in failure (run()
\* rejects, or h1 or c1 is missing from its outputs), latent, h and c are what
\* they were before the result was handled.
C4_FailureLeavesStateUntouched == StepFailed => EngineUntouched

\* C5 -- Frame of editComponent: editComponent(i, v) sets latent[i] to v and
\* leaves every other component, h and c (absent or not) unchanged.
C5_EditFrame ==
  lastEvent.kind = "edit" =>
    LET i == lastEvent.arg[1]
        v == lastEvent.arg[2]
    IN /\ i \in 0..15
       /\ Len(latent) = 16
       /\ latent[i + 1] = v
       /\ \A j \in 0..15 : j # i => latent[j + 1] = lastEvent.pre.latent[j + 1]
       /\ hData = lastEvent.pre.hData
       /\ cData = lastEvent.pre.cData
C5_Witness ==
  /\ lastEvent.kind = "edit"
  /\ lastEvent.arg[1] = 15
  /\ lastEvent.pre.hData # NoData
  /\ lastEvent.pre.latent # ZeroLatent
  /\ latent # lastEvent.pre.latent

\* C6 -- Reset idempotence: reset() yields 16 zeros and an absent recurrent
\* state whatever the state before, and a reset right after a reset leaves the
\* engine state as the first one left it.
C6_ResetIdempotent ==
  lastEvent.kind = "reset" =>
    /\ Len(latent) = 16
    /\ \A i \in 1..16 : latent[i] = Double(0)
    /\ hData = NoData /\ cData = NoData
    /\ lastEvent.prev = "reset" => EngineUntouched
C6_Witness ==
  /\ lastEvent.kind = "reset"
  /\ lastEvent.pre.latent # ZeroLatent
  /\ lastEvent.pre.hData # NoData
  /\ lastEvent.pre.cData # NoData
C6_WitnessTwice == lastEvent.kind = "reset" /\ lastEvent.prev = "reset"

\* C7 -- Advance applies the model result: advance(a) hands lstmSession.run the
\* current latent (as a float32 [1,16] tensor), the action a (as a [1,1]
\* tensor) and the stored h and c when both are present; on success latent, h
\* and c become exactly next_latent, h1 and c1, with no clamping.
C7_AdvanceAppliesResult ==
  /\ lastEvent.kind = "advance" =>
       /\ lastEvent.call.latent =
            [data |-> [i \in 1..16 |-> ToFloat32(lastEvent.pre.latent[i])],
             dims |-> <<1, 16>>]
       /\ lastEvent.call.action = [data |-> <<lastEvent.arg[1]>>, dims |-> <<1, 1>>]
       /\ (lastEvent.pre.hData # NoData /\ lastEvent.pre.cData # NoData) =>
            /\ lastEvent.call.h0 = [data |-> lastEvent.pre.hData, dims |-> <<2, 1, 128>>]
            /\ lastEvent.call.c0 = [data |-> lastEvent.pre.cData, dims |-> <<2, 1, 128>>]
       /\ stepInFlight # <<>> /\ stepInFlight[Len(stepInFlight)] = lastEvent.call
  /\ StepReturnedOk =>
       /\ latent = LstmModel(lastEvent.call).next_latent
       /\ hData = LstmModel(lastEvent.call).h1
       /\ cData = LstmModel(lastEvent.call).c1
C7_Witness ==
  /\ StepReturnedOk
  /\ lastEvent.call.h0.data.fill # 0
  /\ \E i \in 1..16 : latent[i].n > 60 \/ latent[i].n < -60

\* C8 -- Cold-start equivalence: an advance made while the recurrent state is
\* absent hands run() all-zero h0 and c0 of shape [2,1,128], the very call an
\* explicitly zero-filled state gives, and reports no error.
C8_ColdStartZeros ==
  (/\ lastEvent.kind = "advance"
   /\ (lastEvent.pre.hData = NoData \/ lastEvent.pre.cData = NoData)) =>
    /\ lastEvent.call.h0 = [data |-> [len |-> 256, fill |-> 0], dims |-> <<2, 1, 128>>]
    /\ lastEvent.call.c0 = [data |-> [len |-> 256, fill |-> 0], dims |-> <<2, 1, 128>>]
    /\ lastEvent.call = StepCall(lastEvent.pre.latent, lastEvent.arg[1],
                                 [len |-> 256, fill |-> 0], [len |-> 256, fill |-> 0])
    /\ error = lastEvent.pre.error
C8_Witness ==
  /\ lastEvent.kind = "advance"
  /\ lastEvent.pre.hData = NoData /\ lastEvent.pre.cData = NoData
  /\ lastEvent.pre.latent # ZeroLatent
  /\ stepInFlight # <<>>

\* C9 (as claimed) -- Decode follows every state change: every latent an edit,
\* a successful advance or a reset produces is eventually carried by a decode
\* request.
C9_DecodeFollowsEveryChange == <>[](undecoded = {})

\* C9 (amended) -- While the decoder session is available, every edit, reset
\* and successful advance issues exactly one decode request, carrying the
\* resulting latent as a float32 [1,16] tensor; while it is not available they
\* issue none.
ChangedState ==
  lastEvent.kind = "edit" \/ lastEvent.kind = "reset" \/ StepReturnedOk
C9_DecodeFollowsChangeWhenReady ==
  ChangedState =>
    IF decoderSession # Null
      THEN /\ lastEvent.issued = <<LatentTensor(latent)>>
           /\ decodeInFlight # <<>>
           /\ decodeInFlight[Len(decodeInFlight)].z = LatentTensor(latent)
      ELSE lastEvent.issued = <<>> /\ decodeInFlight = <<>>
C9_Witness ==
  /\ lastEvent.kind = "edit"
  /\ decoderSession # Null
  /\ lastEvent.pre.latent = ZeroLatent
  /\ Len(decodeInFlight) = 1
  /\ decodeInFlight[1].z = LatentTensor(latent)

\* C10 -- No inference while uninitialized: until both sessions are available
\* no decode and no dynamics call has been issued, and once the load has failed
\* the advance buttons stay disabled and no call is ever issued.
LoadHasFailed == ~loadPending /\ (decoderSession = Null \/ lstmSession = Null)
C10_NoInferenceWhileUninitialized ==
  /\ (decoderSession = Null \/ lstmSession = Null) =>
       ~everIssued /\ decodeInFlight = <<>> /\ stepInFlight = <<>>
  /\ LoadHasFailed =>
       Disabled /\ ~everIssued /\ error = "LoadError" /\ ~ENABLED LoadSucceeded
C10_Witness ==
  /\ LoadHasFailed
  /\ lastEvent.kind = "edit"
  /\ lastEvent.prev = "loadFailed"

\* C11 -- Failed decode keeps the old frame: when a decode call fails (run()
\* rejects or resolves without x_recon) the failure is reported and the canvas
\* shows what it showed before; the canvas only ever changes to the complete
\* frame of a successful decode: every pixel written, alpha 255.  (The visible
\* canvas is bigCanvas, the upscaled small canvas at every moment.)
DecodeFailed == lastEvent.kind = "decodeReturned" /\ lastEvent.outcome # "ok"
DecodeReturnedOk == lastEvent.kind = "decodeReturned" /\ lastEvent.outcome = "ok"
C11_FailedDecodeKeepsFrame ==
  /\ DecodeFailed =>
       /\ error = "DecodeError"
       /\ smallCanvas = lastEvent.pre.canvas
  /\ smallCanvas # lastEvent.pre.canvas =>
       /\ DecodeReturnedOk
       /\ DOMAIN smallCanvas = 1..(4 * PlaneSize)
       /\ smallCanvas = RenderRGBA(DecoderModel(lastEvent.call.z))
       /\ \A p \in 1..PlaneSize : smallCanvas[4 * p] = 255
C11_Witness ==
  /\ DecodeFailed
  /\ lastEvent.pre.canvas # BlankRGBA
  /\ lastEvent.call.z # LatentTensor(ZeroLatent)
  /\ bigCanvas = Upscale(lastEvent.pre.canvas)

\* C12 -- Clamping law: after a successful decode every colour byte of the
\* frame is max(0, min(255, round(v * 255))) of its decoder output v (round to
\* nearest, halves up), every alpha byte is 255, and outputs -0.1, 0.0, 0.5,
\* 1.0, 1.1 give bytes 0, 0, 128, 255, 255.
C12_ClampingLaw ==
  DecodeReturnedOk =>
    LET data == DecoderModel(lastEvent.call.z) IN
    \A p \in 0..(PlaneSize - 1) :
      /\ smallCanvas[4 * p + 4] = 255
      /\ \A ch \in 0..2 :
           LET t == data[ch * PlaneSize + p + 1]       \* v in thousandths
               byte == smallCanvas[4 * p + ch + 1]
               \* 2000 * (v * 255 + 1/2)
               x == 510 * t + 1000
           IN /\ byte \in 0..255
              /\ byte = 0 => x < 2000
              /\ byte = 255 => x >= 2000 * 255
              /\ (0 < byte /\ byte < 255) => (2000 * byte <= x /\ x < 2000 * byte + 2000)
              /\ t = -100 => byte = 0
              /\ t = 0 => byte = 0
              /\ t = 500 => byte = 128
              /\ t = 1000 => byte = 255
              /\ t = 1100 => byte = 255
C12_Witness ==
  /\ DecodeReturnedOk
  /\ LET data == DecoderModel(lastEvent.call.z)
     IN {-100, 0, 500, 1000, 1100} \subseteq {data[j] : j \in 1..(3 * PlaneSize)}
  /\ smallCanvas # lastEvent.pre.canvas

\* C13 -- Failures are recoverable: once a decode or dynamics call has failed,
\* the action buttons stay enabled, an advance requested afterwards still
\* issues a dynamics call, and an edit or reset requested afterwards still
\* issues a decode call for the latent it produced.
CallFailureReported(err) == err \in {"StepError", "DecodeError"}
C13_FailuresRecoverable ==
  /\ CallFailureReported(error) => ~Disabled
  /\ (lastEvent.kind = "advance" /\ CallFailureReported(lastEvent.pre.error)) =>
       /\ lastEvent.call # NoCall
       /\ stepInFlight # <<>>
       /\ stepInFlight[Len(stepInFlight)] = lastEvent.call
  /\ (lastEvent.kind \in {"edit", "reset"} /\ CallFailureReported(lastEvent.pre.error)) =>
       /\ lastEvent.issued = <<LatentTensor(latent)>>
       /\ decodeInFlight # <<>>
       /\ decodeInFlight[Len(decodeInFlight)].z = LatentTensor(latent)
C13_Witness ==
  /\ lastEvent.kind = "advance"
  /\ lastEvent.pre.error = "StepError"
  /\ stepInFlight # <<>>
C13_WitnessDecode ==
  /\ lastEvent.kind \in {"edit", "reset"}
  /\ lastEvent.pre.error = "DecodeError"
  /\ decodeInFlight # <<>>

\* C14 -- Reset forces a cold start: while reset is the latest request (no
\* edit and no advance since), the dynamics call an advance issues carries
\* all-zero h0 and c0 and the all-zero latent, whatever happened before the
\* reset, a dynamics call still in flight at the reset included.
C14_ResetForcesColdStart ==
  (lastEvent.lastRequest = "reset" /\ ~Disabled) =>
    \A a \in Actions :
      LET call == StepCall(latent, a, hData, cData) IN
      /\ call.h0.data = [len |-> 256, fill |-> 0]
      /\ call.c0.data = [len |-> 256, fill |-> 0]
      /\ call.latent = LatentTensor(ZeroLatent)

\* C15 -- Edits and rollout compose: once a step has stored a recurrent state,
\* an editComponent(i, v) keeps it, and the dynamics call the next advance
\* issues carries the edited latent (as a float32 tensor) together with the
\* stored h and c, not a zero-filled state.  Stated on the call stepWithAction
\* builds from the state the edit leaves, and on the call an advance made right
\* after an edit has issued.
HasRecurrentState(s) == s.hData # NoData /\ s.cData # NoData
Ready == decoderSession # Null /\ lstmSession # Null
InFlight == decodeInFlight # <<>> \/ stepInFlight # <<>>
C16_RequestsNeverBlocked ==
  /\ Ready => ~Disabled
  /\ (Ready /\ InFlight /\ CanRequest) =>
       /\ \A a \in Actions : ENABLED StepWithAction(a)
       /\ \A e \in EditInputs : ENABLED HandleSliderChange(e[1], Double(e[2]))
       /\ ENABLED ResetLatentAndHidden
  /\ (Ready /\ lastEvent.kind = "edit") =>
       /\ latent[lastEvent.arg[1] + 1] = lastEvent.arg[2]
       /\ decodeInFlight # <<>>
       /\ decodeInFlight[Len(decodeInFlight)].z = LatentTensor(latent)
  /\ (Ready /\ lastEvent.kind = "reset") =>
       /\ latent = ZeroLatent /\ hData = NoData /\ cData = NoData
       /\ decodeInFlight # <<>>
       /\ decodeInFlight[Len(decodeInFlight)].z = LatentTensor(ZeroLatent)
  /\ (Ready /\ lastEvent.kind = "advance") =>
       /\ stepInFlight # <<>>
       /\ stepInFlight[Len(stepInFlight)] =
            StepCall(lastEvent.pre.latent, lastEvent.arg[1],
                     lastEvent.pre.hData, lastEvent.pre.cData)
\* an advance issued while a dynamics call was pending
C16_Witness ==
  /\ lastEvent.kind = "advance"
  /\ Len(stepInFlight) = 2
\* an edit and a reset issued while a call was pending
C16_WitnessEdit ==
  /\ lastEvent.kind = "edit"
  /\ Len(decodeInFlight) + Len(stepInFlight) = 2
C16_WitnessReset ==
  /\ lastEvent.kind = "reset"
  /\ stepInFlight # <<>>

\* C17 -- No lost or duplicated steps: when the result of an advance is applied
\* and no edit or reset was requested after the latest advance, the latent and
\* recurrent state its call was computed from are the engine's latent and
\* recurrent state right before the application, so that overlapping advances
\* compose in issue order.
C17_NoLostOrDuplicatedSteps ==
  (StepReturnedOk /\ lastEvent.lastRequest = "advance") =>
    /\ lastEvent.call.latent = LatentTensor(lastEvent.pre.latent)
    /\ lastEvent.call.h0.data = ColdStart(lastEvent.pre.hData, lastEvent.pre.cData)[1]
    /\ lastEvent.call.c0.data = ColdStart(lastEvent.pre.hData, lastEvent.pre.cData)[2]

\* C18 -- Recurrent state is all-or-nothing: in every reachable state hData and
\* cData are both absent or both present.
C18_RecurrentStateAllOrNothing == (hData = NoData) <=> (cData = NoData)

\* C19 -- Reported errors are sticky: once error is set no handler clears it;
\* it is still set after every later handler, and it changes only when a
\* handler reports a new failure.
HandlerFailed == lastEvent.outcome # "ok"
C19_ErrorsSticky ==
  lastEvent.pre.error # Null =>
    /\ error # Null
    /\ error # lastEvent.pre.error => HandlerFailed
C19_Witness ==
  /\ DecodeReturnedOk
  /\ lastEvent.pre.error = "DecodeError"
  /\ smallCanvas # lastEvent.pre.canvas
  /\ error = "DecodeError"
C19_WitnessAdvance == StepReturnedOk /\ lastEvent.pre.error = "StepError"
C19_WitnessReset == lastEvent.kind = "reset" /\ lastEvent.pre.error # Null
C19_WitnessEdit == lastEvent.kind = "edit" /\ lastEvent.pre.error # Null

\* C20 -- Edits made before readiness are not lost: an edit or reset made
\* while the decoder session is not available updates the latent and issues
\* no inference call; when the load succeeds exactly one decode is issued, for
\* the latent as it stands then; and the frame that decode draws on the blank
\* canvas is the frame of that latent.
C20_EditsBeforeReadinessKept ==
  /\ (lastEvent.kind = "edit" /\ decoderSession = Null) =>
       /\ latent[lastEvent.arg[1] + 1] = lastEvent.arg[2]
       /\ lastEvent.issued = <<>> /\ ~everIssued
       /\ decodeInFlight = <<>> /\ stepInFlight = <<>>
  /\ (lastEvent.kind = "reset" /\ decoderSession = Null) =>
       /\ latent = ZeroLatent
       /\ lastEvent.issued = <<>> /\ ~everIssued
       /\ decodeInFlight = <<>> /\ stepInFlight = <<>>
  /\ lastEvent.kind = "loadOk" =>
       /\ latent = lastEvent.pre.latent
       /\ lastEvent.issued = <<LatentTensor(latent)>>
       /\ decodeInFlight = <<[z |-> LatentTensor(latent), superseded |-> FALSE]>>
  /\ (DecodeReturnedOk /\ lastEvent.prev = "loadOk") =>
       /\ lastEvent.pre.canvas = BlankRGBA
       /\ smallCanvas = RenderRGBA(DecoderModel(LatentTensor(latent)))
C20_Witness ==
  /\ DecodeReturnedOk
  /\ lastEvent.prev = "loadOk"
  /\ lastEvent.lastRequest = "edit"
  /\ latent # ZeroLatent
  /\ smallCanvas # RenderRGBA(DecoderModel(LatentTensor(ZeroLatent)))

====
